---- MODULE Spec2Model ----
(***************************************************************************)
(* A model of nestjs-prisma-dynamic-resolvers: the navigation registry     *)
(* (dynamic-navigations), the resolver-parameter registry                  *)
(* (dynamic-resolver-ops), the generation pass and the generated field     *)
(* handler (make-dynamic-resolver, dynamic-resolver-base).                 *)
(***************************************************************************)
EXTENDS Integers, Sequences, FiniteSets, TLC

VARIABLES
  _navigations,     \* dynamic-navigations: let _navigations
  _resolverParams,  \* dynamic-resolver-ops: let _resolverParams
  nextSeq,          \* history: how many links were ever pushed
  ret,              \* the last registry call: its name, arguments, return value
  handler,          \* the closure of the generated handler under invocation
  inv,              \* the state of that handler invocation
  selections,       \* the state of an extractGraphQLSelections call
  paths             \* the state of a path extraction and resolution

vars ==
  <<_navigations, _resolverParams, nextSeq, ret, handler, inv, selections, paths>>

(***************************************************************************)
(* Bounds of the model.                                                    *)
(***************************************************************************)
MaxLinks == 3     \* links ever pushed to the navigation registry
MaxParams == 2    \* registrations held at once, in the model of one module
MaxGroupParams == 3  \* registrations held at once, in the model of the groups
MaxItems == 2     \* items of an eagerly loaded list on the parent

(***************************************************************************)
(* JavaScript values.                                                      *)
(***************************************************************************)
Undefined == "undefined"

\* The model classes (constructors); a class is identified by its name.
Types == {"User", "UserRole"}

OtherType(t) == IF t = "User" THEN "UserRole" ELSE "User"

\* The property of a class that navigates to class t.
PropertyTo(t) == IF t = "User" THEN "users" ELSE "roles"

\* helpers: toCamelCase lowers the first letter of the first word.
toCamelCase(value) ==
  CASE value = "User" -> "user"
    [] value = "UserRole" -> "userRole"
    [] OTHER -> value

\* a ?? b
Coalesce(a, b) == IF a = Undefined THEN b ELSE a

\* No call of an extractor is under way.
NoCall == [pc |-> "none"]

(***************************************************************************)
(* Navigation registry (dynamic-navigations).                              *)
(* _navigations is undefined (alloc = FALSE) or an array (alloc = TRUE).   *)
(* A link carries the history field seq, the position of its push in the   *)
(* life of the process; the code does not read it.                         *)
(***************************************************************************)
NoNavigations == [alloc |-> FALSE, list |-> <<>>]

\* The arguments of a registerNavigation call from class s to the other class.
NavigationParamsOf(s, relation, withTargetProperty) ==
  [from |-> [source |-> s, withProperty |-> PropertyTo(OtherType(s)),
             tableName |-> Undefined, reverseTableName |-> Undefined],
   to |-> [target |-> OtherType(s),
           withProperty |-> IF withTargetProperty THEN PropertyTo(s) ELSE Undefined,
           tableName |-> Undefined],
   relation |-> relation]

\* The same arguments with from.reverseTableName given.
WithReverseTableName(params, reverseTableName) ==
  [params EXCEPT !.from.reverseTableName = reverseTableName]

\* The arguments of registerNavigation the registry models draw from: a
\* one-to-many link, a many-to-many declaration, one that omits the
\* target-side property, and a one-to-many link that names its reverse table.
NavigationParams ==
  { NavigationParamsOf(s, "1:*", FALSE) : s \in Types }
    \cup { NavigationParamsOf(s, "*:*", tp) : s \in Types, tp \in BOOLEAN }
    \cup { WithReverseTableName(NavigationParamsOf("User", "1:*", FALSE), "owner") }

\* const navigationMap: INavigationMap = {...}; reverseTableName is not copied.
NavigationMapOf(params, seq) ==
  [relation |-> params.relation,
   sourceTableName |-> toCamelCase(Coalesce(params.from.tableName, params.from.source)),
   targetTableName |-> toCamelCase(Coalesce(params.to.tableName, params.to.target)),
   target |-> params.to.target,
   source |-> params.from.source,
   targetProperty |-> params.to.withProperty,
   sourceProperty |-> params.from.withProperty,
   reverseTableName |-> Undefined,
   seq |-> seq]

MirrorOf_NotSwapped(left, seq) ==
  [left EXCEPT !.seq = seq]

\* const right: INavigationMap = {...}: the mirror of left.
MirrorOf(left, seq) ==
  [relation |-> "1:*",
   sourceTableName |-> left.targetTableName,
   targetTableName |-> left.sourceTableName,
   target |-> left.source,
   source |-> left.target,
   targetProperty |-> left.sourceProperty,
   sourceProperty |-> left.targetProperty,
   reverseTableName |-> Undefined,
   seq |-> seq]

registerNavigation_PushThenThrow(navs, params, seq) ==
  LET list == navs.list
      navigationMap == NavigationMapOf(params, seq)
      left == [navigationMap EXCEPT !.relation = "1:*"]
  IN IF params.relation = "*:*"
     THEN IF left.targetProperty = Undefined
          THEN [navs |-> [alloc |-> TRUE, list |-> Append(list, left)],
                threw |-> TRUE, pushed |-> 1]
          ELSE [navs |-> [alloc |-> TRUE,
                          list |-> list \o <<left, MirrorOf(left, seq + 1)>>],
                threw |-> FALSE, pushed |-> 2]
     ELSE [navs |-> [alloc |-> TRUE, list |-> Append(list, navigationMap)],
           threw |-> FALSE, pushed |-> 1]

\* registerNavigation: the registry after the call and whether it threw.
registerNavigation(navs, params, seq) ==
  LET list == navs.list   \* _navigations ??= []
      navigationMap == NavigationMapOf(params, seq)
      left == [navigationMap EXCEPT !.relation = "1:*"]
  IN IF params.relation = "*:*"
     THEN IF left.targetProperty = Undefined
          THEN [navs |-> [alloc |-> TRUE, list |-> list], threw |-> TRUE, pushed |-> 0]
          ELSE [navs |-> [alloc |-> TRUE,
                          list |-> list \o <<left, MirrorOf(left, seq + 1)>>],
                threw |-> FALSE, pushed |-> 2]
     ELSE [navs |-> [alloc |-> TRUE, list |-> Append(list, navigationMap)],
           threw |-> FALSE, pushed |-> 1]

\* getNavigationMaps: a copy of the array, [] when undefined.
getNavigationMaps(navs) == IF navs.alloc THEN navs.list ELSE <<>>

getNavigationMapsOf_ByTarget(navs, type) ==
  IF navs.alloc
  THEN SelectSeq(navs.list, LAMBDA it: it.target = type)
  ELSE <<>>

\* getNavigationMapsOf: _navigations?.filter(it => it.source === type) ?? []
getNavigationMapsOf(navs, type) ==
  IF navs.alloc
  THEN SelectSeq(navs.list, LAMBDA it: it.source = type)
  ELSE <<>>

\* A splice loop that runs forward: the item after a removed one is skipped.
RECURSIVE SpliceForward(_, _, _)
SpliceForward(list, type, i) ==
  IF i > Len(list) THEN list
  ELSE IF list[i].source = type
       THEN SpliceForward(SubSeq(list, 1, i - 1) \o SubSeq(list, i + 1, Len(list)),
                          type, i + 1)
       ELSE SpliceForward(list, type, i + 1)

SpliceSource_Forward(list, type, i) == SpliceForward(list, type, 1)

\* The splice loop of removeNavigationMapsOf, from index i down to 1.
RECURSIVE SpliceSource(_, _, _)
SpliceSource(list, type, i) ==
  IF i < 1 THEN list
  ELSE IF list[i].source = type
       THEN SpliceSource(SubSeq(list, 1, i - 1) \o SubSeq(list, i + 1, Len(list)),
                         type, i - 1)
       ELSE SpliceSource(list, type, i - 1)

removeNavigationMapsOf_ByTarget(navs, type) ==
  IF ~navs.alloc
  THEN [navs |-> navs, value |-> FALSE]
  ELSE LET list == SelectSeq(navs.list, LAMBDA it: it.target # type)
       IN [navs |-> IF Len(list) = 0 THEN NoNavigations
                    ELSE [alloc |-> TRUE, list |-> list],
           value |-> TRUE]

\* removeNavigationMapsOf: the registry after the call and the returned boolean.
removeNavigationMapsOf(navs, type) ==
  IF ~navs.alloc
  THEN [navs |-> navs, value |-> FALSE]
  ELSE LET list == SpliceSource(navs.list, type, Len(navs.list))
       IN [navs |-> IF Len(list) = 0 THEN NoNavigations
                    ELSE [alloc |-> TRUE, list |-> list],
           value |-> TRUE]

(***************************************************************************)
(* Resolver-parameter registry (dynamic-resolver-ops).                     *)
(***************************************************************************)
NoResolverParams == [alloc |-> FALSE, list |-> <<>>]

\* The group names in use; the default value of every groupName parameter.
DefaultGroupName == "_global"
ModuleNames == {Undefined, DefaultGroupName, "user"}

\* UseDynamicResolvers(params)(sourceClass): { ...params, target: sourceClass }
UseDynamicResolvers(params, sourceClass) ==
  [target |-> sourceClass,
   moduleName |-> params.moduleName,
   keepNavigationMap |-> params.keepNavigationMap,
   primaryKeyName |-> params.primaryKeyName,
   onResolving |-> params.onResolving,
   onResolved |-> params.onResolved]

\* The decorator parameters of the model of one module: the classes of the
\* module "user", keeping their navigation maps or not (no hooks).
ModuleDecoratorParams ==
  { [moduleName |-> "user", keepNavigationMap |-> k, primaryKeyName |-> Undefined,
     onResolving |-> Undefined, onResolved |-> Undefined] :
      k \in {Undefined, "true", "false"} }

\* The decorator parameters of the model of the groups: any module name or none.
GroupDecoratorParams ==
  { [moduleName |-> m, keepNavigationMap |-> Undefined, primaryKeyName |-> Undefined,
     onResolving |-> Undefined, onResolved |-> Undefined] :
      m \in ModuleNames }

\* registerDynamicResolver: _resolverParams ??= []; _resolverParams.push(params)
registerDynamicResolver(regs, params) ==
  [alloc |-> TRUE, list |-> Append(regs.list, params)]

\* A parameter declared as groupName = '_global'.
GroupNameOrDefault(groupName) == Coalesce(groupName, DefaultGroupName)

\* getDynamicResolverParams(groupName = '_global')
getDynamicResolverParams(regs, groupName) ==
  IF ~regs.alloc THEN <<>>
  ELSE SelectSeq(regs.list,
                 LAMBDA it: it.moduleName = GroupNameOrDefault(groupName))

\* The splice loop of removeDynamicResolverParamsOfGroup, from index i down to 1.
RECURSIVE SpliceGroup(_, _, _)
SpliceGroup(list, groupName, i) ==
  IF i < 1 THEN list
  ELSE IF list[i].moduleName = groupName
       THEN SpliceGroup(SubSeq(list, 1, i - 1) \o SubSeq(list, i + 1, Len(list)),
                        groupName, i - 1)
       ELSE SpliceGroup(list, groupName, i - 1)

removeDynamicResolverParamsOfGroup_First(regs, groupName) ==
  IF ~regs.alloc THEN [regs |-> regs, value |-> FALSE]
  ELSE LET list == IF Len(regs.list) > 0 /\ regs.list[1].moduleName = groupName
                   THEN Tail(regs.list) ELSE regs.list
       IN [regs |-> IF Len(list) = 0 THEN NoResolverParams
                    ELSE [alloc |-> TRUE, list |-> list],
           value |-> TRUE]

\* removeDynamicResolverParamsOfGroup(groupName)
removeDynamicResolverParamsOfGroup(regs, groupName) ==
  IF ~regs.alloc THEN [regs |-> regs, value |-> FALSE]
  ELSE LET list == SpliceGroup(regs.list, groupName, Len(regs.list))
       IN [regs |-> IF Len(list) = 0 THEN NoResolverParams
                    ELSE [alloc |-> TRUE, list |-> list],
           value |-> TRUE]

(***************************************************************************)
(* Generation pass (make-dynamic-resolver).                                *)
(***************************************************************************)
\* relation.indexOf('*') >= 0
HasStar(relation) == relation \in {"1:*", "*:1", "*:*"}

\* const [ _left, right ] = relation.split(':')
RightOf(relation) == IF relation \in {"1:*", "*:*"} THEN "*" ELSE "1"

\* The reduce of _generateMapsForType over the links from index i on.
RECURSIVE ReduceSelectionMap(_, _, _)
ReduceSelectionMap(navigationMaps, i, prev) ==
  IF i > Len(navigationMaps) THEN prev
  ELSE LET current == navigationMaps[i]
           withSource == (current.sourceProperty :> current.sourceTableName) @@ prev
           withTarget == IF current.targetProperty # Undefined
                         THEN (current.targetProperty :> current.targetTableName)
                                @@ withSource
                         ELSE withSource
       IN ReduceSelectionMap(navigationMaps, i + 1, withTarget)

_generateMapsForType_NoSkip(navs, sourceClass) ==
  LET navigationMaps == getNavigationMapsOf(navs, sourceClass)
  IN [found |-> TRUE, navigationMaps |-> navigationMaps,
      selectionMap |-> ReduceSelectionMap(navigationMaps, 1,
                                          [k \in {"sourceClass"} |-> sourceClass])]

\* _generateMapsForType: [] (found = FALSE) or [ navigationMaps, selectionMap ]
_generateMapsForType(navs, sourceClass) ==
  LET navigationMaps == getNavigationMapsOf(navs, sourceClass)
  IN IF Len(navigationMaps) = 0
     THEN [found |-> FALSE, navigationMaps |-> <<>>, selectionMap |-> <<>>]
     ELSE [found |-> TRUE, navigationMaps |-> navigationMaps,
           selectionMap |-> ReduceSelectionMap(navigationMaps, 1,
                                               [k \in {"sourceClass"} |-> sourceClass])]

\* _makeDynamicResolver: what the generated class closes over and declares.
_makeDynamicResolver(params, navigationMap, selectionMap) ==
  [target |-> params.target,
   navigationMap |-> navigationMap,
   selectionMap |-> selectionMap,
   primaryKeyName |-> Coalesce(params.primaryKeyName, "id"),
   onResolving |-> params.onResolving,
   onResolved |-> params.onResolved,
   sourceProperty |-> navigationMap.sourceProperty,
   isArray |-> HasStar(navigationMap.relation)]

\* for (const navigationMap of navigationMaps) resolversOfTarget.push(...)
ResolversOfTarget(params, maps) ==
  [i \in 1..Len(maps.navigationMaps) |->
     _makeDynamicResolver(params, maps.navigationMaps[i], maps.selectionMap)]

\* resolverClasses[ name ] = resolvers on a dictionary kept in insertion order.
SetKey(dict, name, resolvers) ==
  IF \E k \in 1..Len(dict) : dict[k].name = name
  THEN [k \in 1..Len(dict) |->
          IF dict[k].name = name THEN [name |-> name, resolvers |-> resolvers]
          ELSE dict[k]]
  ELSE Append(dict, [name |-> name, resolvers |-> resolvers])

\* A loop that leaves every navigation map in the registry.
RECURSIVE GenerateLoop_KeepMaps(_, _, _, _)
GenerateLoop_KeepMaps(resolverParams, i, navs, resolverClasses) ==
  IF i > Len(resolverParams)
  THEN [navs |-> navs, resolverClasses |-> resolverClasses]
  ELSE LET params == resolverParams[i]
           maps == _generateMapsForType(navs, params.target)
       IN IF ~maps.found
          THEN GenerateLoop_KeepMaps(resolverParams, i + 1, navs, resolverClasses)
          ELSE GenerateLoop_KeepMaps(
                 resolverParams, i + 1, navs,
                 SetKey(resolverClasses, params.target,
                        ResolversOfTarget(params, maps)))

\* The loop of generateDynamicResolvers over resolverParams from index i on.
RECURSIVE GenerateLoop(_, _, _, _)
GenerateLoop(resolverParams, i, navs, resolverClasses) ==
  IF i > Len(resolverParams)
  THEN [navs |-> navs, resolverClasses |-> resolverClasses]
  ELSE LET params == resolverParams[i]
           keepNavigationMap == Coalesce(params.keepNavigationMap, "false")
           maps == _generateMapsForType(navs, params.target)
       IN IF ~maps.found
          THEN GenerateLoop(resolverParams, i + 1, navs, resolverClasses)
          ELSE GenerateLoop(
                 resolverParams, i + 1,
                 IF keepNavigationMap # "true"
                 THEN removeNavigationMapsOf(navs, params.target).navs
                 ELSE navs,
                 SetKey(resolverClasses, params.target,
                        ResolversOfTarget(params, maps)))

\* generateDynamicResolvers(groupName = '_global', freeMemory = true)
generateDynamicResolvers(navs, regs, groupName, freeMemory) ==
  LET resolverParams == getDynamicResolverParams(regs, groupName)
      loop == GenerateLoop(resolverParams, 1, navs, <<>>)
  IN [navs |-> loop.navs,
      regs |-> IF freeMemory
               THEN removeDynamicResolverParamsOfGroup(
                      regs, GroupNameOrDefault(groupName)).regs
               ELSE regs,
      value |-> loop.resolverClasses]

(***************************************************************************)
(* JavaScript values handled by a generated handler: a value has a type,   *)
(* an identity (id), the items of an array and the fields of an object.    *)
(***************************************************************************)
NoFields == [k \in {} |-> 0]

VUndefined == [type |-> "undefined", id |-> 0, items |-> <<>>, fields |-> NoFields]
VNull == [type |-> "null", id |-> 0, items |-> <<>>, fields |-> NoFields]
VNumber == [type |-> "number", id |-> 7, items |-> <<>>, fields |-> NoFields]
VObject(i) == [type |-> "object", id |-> i, items |-> <<>>, fields |-> NoFields]
VRecord(f) == [type |-> "object", id |-> 0, items |-> <<>>, fields |-> f]
VArray(items) == [type |-> "array", id |-> 0, items |-> items, fields |-> NoFields]

\* typeof v
TypeOf(v) == IF v.type \in {"null", "object", "array"} THEN "object" ELSE v.type

\* v[key] for a v that is neither null nor undefined
GetField(v, key) == IF key \in DOMAIN v.fields THEN v.fields[key] ELSE VUndefined

\* What a hook may return.
HookReturns ==
  {VUndefined, VNull, VNumber, VObject(1), VObject(2), VArray(<<VObject(2)>>)}

\* The items of an eagerly loaded list: join rows keyed by table name, or null.
ItemFields ==
  { [k \in {"userRole"} |-> a] : a \in {VObject(1), VObject(2)} }
    \cup { [k \in {"user"} |-> VObject(2)] }
    \cup { [k \in {"user", "userRole"} |-> IF k = "user" THEN VObject(2) ELSE a] :
             a \in {VObject(1), VObject(2)} }

Items == {VRecord(f) : f \in ItemFields} \cup {VNull}

RECURSIVE SeqsUpTo(_, _)
SeqsUpTo(S, n) ==
  IF n = 0 THEN {<<>>}
  ELSE LET shorter == SeqsUpTo(S, n - 1)
       IN shorter \cup {Append(q, x) : q \in shorter, x \in S}

\* What the parent may carry under the navigated property.
PropertyValues ==
  {VArray(q) : q \in SeqsUpTo(Items, MaxItems)}
    \cup {VUndefined, VNull, VObject(1)}

\* The parent record: its primary key, and the navigated property when loaded.
Parents ==
  {[id |-> 1, has |-> FALSE, value |-> VUndefined]}
    \cup {[id |-> 1, has |-> TRUE, value |-> v] : v \in PropertyValues}

(***************************************************************************)
(* The generated handler (make-dynamic-resolver, dynamic-resolver-base).   *)
(***************************************************************************)
fireOnResolvingEvent_Never(onResolving, replaceValue) ==
  [shouldReturn |-> FALSE, replaceValue |-> VUndefined]

\* fireOnResolvingEvent: the tuple it returns when onResolving returned replaceValue.
fireOnResolvingEvent(onResolving, replaceValue) ==
  IF onResolving = "function" /\ TypeOf(replaceValue) = "object"
  THEN [shouldReturn |-> TRUE, replaceValue |-> replaceValue]
  ELSE [shouldReturn |-> FALSE, replaceValue |-> VUndefined]

\* fireOnResolvedEvent: what it returns when onResolved returned replaceValue.
fireOnResolvedEvent(onResolved, replaceValue, data) ==
  IF onResolved = "function" /\ TypeOf(replaceValue) = "object"
  THEN replaceValue
  ELSE data

\* data.map((it) => it[ targetTableName ]): a TypeError on null or undefined items.
RECURSIVE MapItems(_, _, _)
MapItems(items, key, i) ==
  IF i > Len(items) THEN [threw |-> FALSE, items |-> <<>>]
  ELSE IF items[i].type \in {"null", "undefined"}
       THEN [threw |-> TRUE, items |-> <<>>]
       ELSE LET rest == MapItems(items, key, i + 1)
            IN IF rest.threw THEN rest
               ELSE [threw |-> FALSE,
                     items |-> <<GetField(items[i], key)>> \o rest.items]

resolve_BySourceTable(parent, primaryKeyName, navigationMap, selectionMap) ==
  LET isArray == RightOf(navigationMap.relation) = "*"
      data == parent.value
  IN IF parent.has
     THEN IF isArray
          THEN IF data.type # "array"
               THEN [threw |-> TRUE, value |-> VUndefined, queries |-> <<>>]
               ELSE LET mapped == MapItems(data.items, navigationMap.sourceTableName, 1)
                    IN IF mapped.threw
                       THEN [threw |-> TRUE, value |-> VUndefined, queries |-> <<>>]
                       ELSE [threw |-> FALSE, value |-> VArray(mapped.items),
                             queries |-> <<>>]
          ELSE [threw |-> FALSE, value |-> data, queries |-> <<>>]
     ELSE [threw |-> TRUE, value |-> VUndefined, queries |-> <<>>]

\* DynamicResolverBase.resolve: whether it threw, the data it returned and the
\* storage queries it issued.  _primaryKeyName, _info and _selectionMap are unused.
resolve(parent, primaryKeyName, navigationMap, selectionMap) ==
  LET isArray == RightOf(navigationMap.relation) = "*"
      data == parent.value
  IN IF parent.has
     THEN IF isArray
          THEN IF data.type # "array"
               THEN [threw |-> TRUE, value |-> VUndefined, queries |-> <<>>]
               ELSE LET mapped == MapItems(data.items, navigationMap.targetTableName, 1)
                    IN IF mapped.threw
                       THEN [threw |-> TRUE, value |-> VUndefined, queries |-> <<>>]
                       ELSE [threw |-> FALSE, value |-> VArray(mapped.items),
                             queries |-> <<>>]
          ELSE [threw |-> FALSE, value |-> data, queries |-> <<>>]
     ELSE \* throw new Error(`Could not resolve from ...`)
          [threw |-> TRUE, value |-> VUndefined, queries |-> <<>>]

\* The invocation before the handler is called.
Idle ==
  [pc |-> "idle", parent |-> [id |-> 1, has |-> FALSE, value |-> VUndefined],
   preReturn |-> VUndefined, shouldReturn |-> FALSE, resolved |-> "no",
   data |-> VUndefined, fromDatabase |-> FALSE, postReturn |-> VUndefined,
   result |-> VUndefined, log |-> <<>>, queries |-> <<>>]

\* this.fireOnResolvedEvent(parent, root, info, data, context, fromDatabase):
\* the hook is called and awaited, or data is returned at once.
EnterResolved(h, i, data, fromDatabase) ==
  IF h.onResolved = "function"
  THEN [i EXCEPT !.pc = "onResolved", !.data = data, !.fromDatabase = fromDatabase,
                 !.log = Append(@, [call |-> "onResolved", data |-> data,
                                    fromDatabase |-> fromDatabase])]
  ELSE [i EXCEPT !.pc = "done", !.data = data, !.fromDatabase = fromDatabase,
                 !.result = fireOnResolvedEvent(h.onResolved, VUndefined, data)]

HandlerShortCircuit_Return(h, i, replaceValue) ==
  [i EXCEPT !.pc = "done", !.data = replaceValue, !.result = replaceValue]

\* if (shouldReturn) return this.fireOnResolvedEvent(..., replaceValue, context, false)
HandlerShortCircuit(h, i, replaceValue) ==
  EnterResolved(h, i, replaceValue, FALSE)

HandlerResolve_Swallow(h, i) ==
  LET r == resolve(i.parent, h.primaryKeyName, h.navigationMap, h.selectionMap)
      j == [i EXCEPT !.log = Append(@, [call |-> "resolve"]),
                     !.queries = @ \o r.queries]
  IN EnterResolved(h, [j EXCEPT !.resolved = IF r.threw THEN "threw" ELSE "returned"],
                   r.value, TRUE)

\* const data = await this.resolve(...); return this.fireOnResolvedEvent(..., true)
HandlerResolve(h, i) ==
  LET r == resolve(i.parent, h.primaryKeyName, h.navigationMap, h.selectionMap)
      j == [i EXCEPT !.log = Append(@, [call |-> "resolve"]),
                     !.queries = @ \o r.queries]
  IN IF r.threw
     THEN [j EXCEPT !.pc = "rejected", !.resolved = "threw"]
     ELSE EnterResolved(h, [j EXCEPT !.resolved = "returned"], r.value, TRUE)

\* flattenArray over the values of the dictionary, in key order.
RECURSIVE FlattenFrom(_, _)
FlattenFrom(dict, k) ==
  IF k > Len(dict) THEN <<>> ELSE dict[k].resolvers \o FlattenFrom(dict, k + 1)

\* provideDynamicResolvers(prismaService, moduleName = '_global'): the resolver
\* classes that follow the prisma provider.
provideDynamicResolvers(navs, regs, moduleName) ==
  LET gen == generateDynamicResolvers(navs, regs, GroupNameOrDefault(moduleName), TRUE)
  IN [navs |-> gen.navs, regs |-> gen.regs, value |-> FlattenFrom(gen.value, 1)]

(***************************************************************************)
(* The registries as a state machine: every exported operation that        *)
(* changes them is an action.                                              *)
(***************************************************************************)
NoHandler == [target |-> Undefined]

RegisterNavigation(params) ==
  LET r == registerNavigation(_navigations, params, nextSeq + 1)
  IN /\ nextSeq + r.pushed <= MaxLinks
     /\ _navigations' = r.navs
     /\ nextSeq' = nextSeq + r.pushed
     /\ ret' = [op |-> "registerNavigation", threw |-> r.threw]
     /\ UNCHANGED <<_resolverParams, handler, inv, selections, paths>>

RemoveNavigationMapsOf(type) ==
  LET r == removeNavigationMapsOf(_navigations, type)
  IN /\ _navigations' = r.navs
     /\ ret' = [op |-> "removeNavigationMapsOf", type |-> type, value |-> r.value]
     /\ UNCHANGED <<_resolverParams, nextSeq, handler, inv, selections, paths>>

RegisterDynamicResolver(params, sourceClass, max) ==
  /\ Len(_resolverParams.list) < max
  /\ _resolverParams' =
       registerDynamicResolver(_resolverParams, UseDynamicResolvers(params, sourceClass))
  /\ ret' = [op |-> "registerDynamicResolver"]
  /\ UNCHANGED <<_navigations, nextSeq, handler, inv, selections, paths>>

GenerateDynamicResolvers(groupName, freeMemory) ==
  LET r == generateDynamicResolvers(_navigations, _resolverParams, groupName, freeMemory)
  IN /\ _navigations' = r.navs
     /\ _resolverParams' = r.regs
     /\ ret' = [op |-> "generateDynamicResolvers", groupName |-> groupName,
                freeMemory |-> freeMemory, value |-> r.value]
     /\ UNCHANGED <<nextSeq, handler, inv, selections, paths>>

ProvideDynamicResolvers(moduleName) ==
  LET r == provideDynamicResolvers(_navigations, _resolverParams, moduleName)
  IN /\ _navigations' = r.navs
     /\ _resolverParams' = r.regs
     /\ ret' = [op |-> "provideDynamicResolvers", groupName |-> moduleName,
                freeMemory |-> TRUE, value |-> r.value]
     /\ UNCHANGED <<nextSeq, handler, inv, selections, paths>>

(***************************************************************************)
(* Spec: one module.  Navigations are registered and removed in any order, *)
(* the classes of the module "user" are decorated, the module's resolvers  *)
(* are generated.                                                          *)
(***************************************************************************)
Init ==
  /\ _navigations = NoNavigations
  /\ _resolverParams = NoResolverParams
  /\ nextSeq = 0
  /\ ret = [op |-> "none"]
  /\ handler = NoHandler
  /\ inv = Idle
  /\ selections = NoCall
  /\ paths = NoCall

Next ==
  \/ \E params \in NavigationParams : RegisterNavigation(params)
  \/ \E type \in Types : RemoveNavigationMapsOf(type)
  \/ \E params \in ModuleDecoratorParams, sourceClass \in Types :
       RegisterDynamicResolver(params, sourceClass, MaxParams)
  \/ \E freeMemory \in BOOLEAN : GenerateDynamicResolvers("user", freeMemory)

Spec == Init /\ [][Next]_vars

(***************************************************************************)
(* SpecGroups: the groups.  Both classes navigate to each other (one       *)
(* many-to-many declaration); classes are decorated with any module name   *)
(* or none, and any group is generated or provided.                        *)
(***************************************************************************)
ManyToMany == NavigationParamsOf("User", "*:*", TRUE)

InitGroups ==
  /\ _navigations = registerNavigation(NoNavigations, ManyToMany, 1).navs
  /\ _resolverParams = NoResolverParams
  /\ nextSeq = 2
  /\ ret = [op |-> "registerNavigation", threw |-> FALSE]
  /\ handler = NoHandler
  /\ inv = Idle
  /\ selections = NoCall
  /\ paths = NoCall

NextGroups ==
  \/ \E params \in GroupDecoratorParams, sourceClass \in Types :
       RegisterDynamicResolver(params, sourceClass, MaxGroupParams)
  \/ \E groupName \in ModuleNames, freeMemory \in BOOLEAN :
       GenerateDynamicResolvers(groupName, freeMemory)
  \/ \E moduleName \in ModuleNames : ProvideDynamicResolvers(moduleName)

SpecGroups == InitGroups /\ [][NextGroups]_vars

(***************************************************************************)
(* SpecRead: the registry is read.  A caller holds the array a read        *)
(* returned and pushes to it or pops from it.                              *)
(***************************************************************************)
NewArray_Registry(items) ==
  [items |-> items, isRegistry |-> TRUE]

\* [ ..._navigations ], [] and the result of filter: a new array, which is
\* not the array of the registry.
NewArray(items) ==
  [items |-> items, isRegistry |-> FALSE]

\* A link made by the caller, never registered.
ForeignLink == NavigationMapOf(NavigationParamsOf("User", "1:1", FALSE), 0)

\* array.push(ForeignLink) and array.pop() on the items of an array.
MutationsOfArray == {"push", "pop"}
Mutated(items, mutation) ==
  IF mutation = "push" THEN Append(items, ForeignLink)
  ELSE IF Len(items) = 0 THEN items
  ELSE SubSeq(items, 1, Len(items) - 1)

GetNavigationMaps ==
  /\ ret' = [op |-> "getNavigationMaps",
             array |-> NewArray(getNavigationMaps(_navigations))]
  /\ UNCHANGED <<_navigations, _resolverParams, nextSeq, handler, inv, selections,
                 paths>>

GetNavigationMapsOf(type) ==
  /\ ret' = [op |-> "getNavigationMapsOf", type |-> type,
             array |-> NewArray(getNavigationMapsOf(_navigations, type))]
  /\ UNCHANGED <<_navigations, _resolverParams, nextSeq, handler, inv, selections,
                 paths>>

\* The caller changes the array the last read returned.
MutateReturned(mutation) ==
  /\ ret.op \in {"getNavigationMaps", "getNavigationMapsOf"}
  /\ LET items == Mutated(ret.array.items, mutation)
     IN /\ ret' = [op |-> "mutated", mutation |-> mutation,
                   array |-> [ret.array EXCEPT !.items = items]]
        /\ _navigations' = IF ret.array.isRegistry
                           THEN [alloc |-> TRUE, list |-> items]
                           ELSE _navigations
  /\ UNCHANGED <<_resolverParams, nextSeq, handler, inv, selections, paths>>

InitRead == Init

NextRead ==
  \/ \E params \in NavigationParams : RegisterNavigation(params)
  \/ GetNavigationMaps
  \/ \E type \in Types : GetNavigationMapsOf(type)
  \/ \E mutation \in MutationsOfArray : MutateReturned(mutation)

SpecRead == InitRead /\ [][NextRead]_vars

(***************************************************************************)
(* SpecResolve: one invocation of a generated handler.  The handler is     *)
(* generated from one navigation declaration and one decorated class; the  *)
(* hooks' return values and the parent are chosen when they occur.         *)
(***************************************************************************)
\* The navigation declarations of the handler model: every cardinality tag.
HandlerNavigationParams ==
  { NavigationParamsOf("User", r, r = "*:*") : r \in {"1:1", "1:*", "*:1", "*:*"} }

\* The decorator parameters of the handler model: each hook configured or not.
HandlerDecoratorParams ==
  { [moduleName |-> "user", keepNavigationMap |-> Undefined,
     primaryKeyName |-> Undefined, onResolving |-> a, onResolved |-> b] :
      a \in {Undefined, "function"}, b \in {Undefined, "function"} }

\* The registries after the declaration np and the decorator dp on its source.
Declared(np, dp) ==
  [navs |-> registerNavigation(NoNavigations, np, 1).navs,
   regs |-> registerDynamicResolver(NoResolverParams,
                                    UseDynamicResolvers(dp, np.from.source))]

InitResolve ==
  \E np \in HandlerNavigationParams, dp \in HandlerDecoratorParams :
    LET d == Declared(np, dp)
        gen == generateDynamicResolvers(d.navs, d.regs, "user", TRUE)
    IN /\ _navigations = gen.navs
       /\ _resolverParams = gen.regs
       /\ nextSeq = Len(d.navs.list)
       /\ ret = [op |-> "none"]
       /\ handler = gen.value[1].resolvers[1]
       /\ inv = Idle
       /\ selections = NoCall
       /\ paths = NoCall
  /\ selections = NoCall
  /\ paths = NoCall

\* The framework calls the handler: fireOnResolvingEvent runs up to its await.
HandlerCall(parent) ==
  /\ inv.pc = "idle"
  /\ inv' = IF handler.onResolving = "function"
            THEN [inv EXCEPT !.pc = "onResolving", !.parent = parent,
                             !.log = Append(@, [call |-> "onResolving"])]
            ELSE [inv EXCEPT !.pc = "resolve", !.parent = parent]
  /\ UNCHANGED <<_navigations, _resolverParams, nextSeq, ret, handler, selections, paths>>

\* onResolving returns v: the handler short-circuits or goes on to resolve.
OnResolvingReturns(v) ==
  /\ inv.pc = "onResolving"
  /\ LET r == fireOnResolvingEvent(handler.onResolving, v)
         i == [inv EXCEPT !.preReturn = v, !.shouldReturn = r.shouldReturn]
     IN inv' = IF r.shouldReturn
               THEN HandlerShortCircuit(handler, i, r.replaceValue)
               ELSE [i EXCEPT !.pc = "resolve"]
  /\ UNCHANGED <<_navigations, _resolverParams, nextSeq, ret, handler, selections, paths>>

\* onResolving throws or rejects: the await rethrows, the handler rejects.
OnResolvingThrows ==
  /\ inv.pc = "onResolving"
  /\ inv' = [inv EXCEPT !.pc = "rejected"]
  /\ UNCHANGED <<_navigations, _resolverParams, nextSeq, ret, handler, selections, paths>>

\* this.resolve(...) and, when it returns, the call of fireOnResolvedEvent.
Resolve ==
  /\ inv.pc = "resolve"
  /\ inv' = HandlerResolve(handler, inv)
  /\ UNCHANGED <<_navigations, _resolverParams, nextSeq, ret, handler, selections, paths>>

\* onResolved returns v: the handler returns v or the data.
OnResolvedReturns(v) ==
  /\ inv.pc = "onResolved"
  /\ inv' = [inv EXCEPT !.pc = "done", !.postReturn = v,
                        !.result = fireOnResolvedEvent(handler.onResolved, v, inv.data)]
  /\ UNCHANGED <<_navigations, _resolverParams, nextSeq, ret, handler, selections, paths>>

\* onResolved throws or rejects: the handler rejects.
OnResolvedThrows ==
  /\ inv.pc = "onResolved"
  /\ inv' = [inv EXCEPT !.pc = "rejected"]
  /\ UNCHANGED <<_navigations, _resolverParams, nextSeq, ret, handler, selections, paths>>

NextResolve ==
  \/ \E parent \in Parents : HandlerCall(parent)
  \/ \E v \in HookReturns : OnResolvingReturns(v)
  \/ OnResolvingThrows
  \/ Resolve
  \/ \E v \in HookReturns : OnResolvedReturns(v)
  \/ OnResolvedThrows

SpecResolve == InitResolve /\ [][NextResolve]_vars

(***************************************************************************)
(* Path extraction (helpers/extract-grapql-selections) and path resolution *)
(* (dynamic-resolver-base).  info.path is a chain of { key, prev }: the    *)
(* model holds it as the sequence of its keys from the leaf back to the    *)
(* root, and an absent path as the empty sequence.                         *)
(***************************************************************************)
MaxPath == 3   \* keys of a path chain

StringKey(name) == [type |-> "string", name |-> name]
NumberKey == [type |-> "number", name |-> "0"]

\* The field names that occur in a path.
PathNames == {"allUsers", "roles", "fieldX"}

PathKeys == {StringKey(name) : name \in PathNames} \cup {NumberKey}

PathChains == SeqsUpTo(PathKeys, MaxPath)

\* The entries of a rename map: a string, a function (value is what the
\* function returns), or no entry.
NoMapper == [type |-> "undefined", value |-> ""]
StringMapper(value) == [type |-> "string", value |-> value]
FunctionMapper(value) == [type |-> "function", value |-> value]

\* selectionMap = {}
NoSelectionMap == [name \in PathNames |-> NoMapper]

\* selectionMap = { fieldX: 'col_x' }
RenameFieldX == [NoSelectionMap EXCEPT !["fieldX"] = StringMapper("col_x")]

\* The rename maps the path extractor is called with.
PathSelectionMaps ==
  {NoSelectionMap, RenameFieldX,
   [NoSelectionMap EXCEPT !["roles"] = FunctionMapper("userRoles")]}

\* The initial root paths.
RootPaths == {<<>>, <<"base">>}

MappedValue_KeyOnly(selectionMap, rootPaths, key) ==
  [value |-> key, calls |-> <<>>]

\* The segment of a string key: mapper, mapper(rootPaths, key) or key; calls
\* lists the arguments the mapper function was called with.
MappedValue(selectionMap, rootPaths, key) ==
  LET mapper == selectionMap[key]
  IN IF mapper.type = "string"
     THEN [value |-> mapper.value, calls |-> <<>>]
     ELSE IF mapper.type = "function"
          THEN [value |-> mapper.value,
                calls |-> <<[parents |-> rootPaths, key |-> key]>>]
          ELSE [value |-> key, calls |-> <<>>]

\* An extractor that appends each segment instead of prepending it.
RECURSIVE ExtractAppending(_, _, _)
ExtractAppending(path, selectionMap, rootPaths) ==
  IF path = <<>> THEN [value |-> rootPaths, calls |-> <<>>]
  ELSE IF Head(path).type = "number"
       THEN ExtractAppending(Tail(path), selectionMap, rootPaths)
       ELSE LET m == MappedValue(selectionMap, rootPaths, Head(path).name)
                r == ExtractAppending(Tail(path), selectionMap,
                                      Append(rootPaths, m.value))
            IN [value |-> r.value, calls |-> m.calls \o r.calls]

extractGraphQLSelectionPath_Appending(path, selectionMap, rootPaths) ==
  ExtractAppending(path, selectionMap, rootPaths)

\* extractGraphQLSelectionPath({ path, selectionMap, rootPaths }): the list it
\* returns and the calls of mapper functions it made.
RECURSIVE extractGraphQLSelectionPath(_, _, _)
extractGraphQLSelectionPath(path, selectionMap, rootPaths) ==
  IF path = <<>> THEN [value |-> rootPaths, calls |-> <<>>]
  ELSE IF Head(path).type = "number"
       THEN extractGraphQLSelectionPath(Tail(path), selectionMap, rootPaths)
       ELSE LET m == MappedValue(selectionMap, rootPaths, Head(path).name)
                r == extractGraphQLSelectionPath(Tail(path), selectionMap,
                                                 <<m.value>> \o rootPaths)
            IN [value |-> r.value, calls |-> m.calls \o r.calls]

ExtractGraphQLSelectionPath ==
  /\ paths.pc = "called"
  /\ paths.op = "extractGraphQLSelectionPath"
  /\ LET r == extractGraphQLSelectionPath(paths.path, paths.selectionMap,
                                          paths.rootPaths)
     IN paths' = [paths EXCEPT !.pc = "returned"] @@
                   [value |-> r.value, calls |-> r.calls]
  /\ UNCHANGED <<_navigations, _resolverParams, nextSeq, ret, handler, inv,
                 selections>>

\* The segment of a property name as the path extractor of the resolver
\* base hands it over: the name as written, and the table name it inherits
\* from the registered link of that property (else the name itself).
SelectionPathSegment(navs, propertyName) ==
  LET links == SelectSeq(getNavigationMaps(navs),
                         LAMBDA it: it.sourceProperty = propertyName)
  IN [propertyName |-> propertyName,
      tableName |-> IF Len(links) > 0 THEN links[1].targetTableName
                    ELSE propertyName,
      table |-> Undefined,
      navigationMaps |-> <<>>]

\* The segments of info.path, from the root to the leaf.
SelectionPathSegments(navs, path) ==
  LET names == extractGraphQLSelectionPath(path, NoSelectionMap, <<>>).value
  IN [i \in 1..Len(names) |-> SelectionPathSegment(navs, names[i])]

\* updatePathInfoFromSchema(pathInfo, info.schema)
updatePathInfoFromSchema(pathInfo) == pathInfo

\* The body of pathInfoList.forEach(pathInfo => ...)
UpdatePathInfo(navs, pathInfo) ==
  IF pathInfo.table # Undefined THEN pathInfo
  ELSE LET tableName == toCamelCase(pathInfo.tableName)
           maps == SelectSeq(getNavigationMaps(navs),
                             LAMBDA it: it.sourceTableName = tableName)
       IN updatePathInfoFromSchema(
            [pathInfo EXCEPT !.table = IF Len(maps) > 0 THEN maps[1].source
                                       ELSE Undefined,
                             !.navigationMaps = maps])

\* The accessors of the storage client, this.prisma.
PrismaModels == {"user", "userRole"}

\* selectionMap?.[ key ] on a Dictionary<string>
Lookup(selectionMap, key) ==
  IF key \in DOMAIN selectionMap THEN selectionMap[key] ELSE Undefined

\* throw new Error(message) with the values interpolated into the message.
ErrorOf(type, message, names) ==
  [threw |-> TRUE, error |-> [type |-> type, message |-> message, names |-> names],
   queries |-> <<>>]

getSelectionPath_NoLengthCheck(navs, path, selectionMap) ==
  LET segments == SelectionPathSegments(navs, path)
  IN IF Len(segments) < 2
     THEN ErrorOf("TypeError", "Cannot read properties of undefined", <<>>)
     ELSE ErrorOf("Error", "The navigation target could not be extracted in",
                  <<segments[2].propertyName>>)

\* DynamicResolverBase.getSelectionPath(info, selectionMap): the error it
\* throws or the record it returns, and the storage queries it issued.
getSelectionPath(navs, path, selectionMap) ==
  LET segments == SelectionPathSegments(navs, path)
      pathInfoList == [i \in 1..Len(segments) |-> UpdatePathInfo(navs, segments[i])]
  IN IF Len(pathInfoList) = 0
     THEN \* query is undefined: query.propertyName
          ErrorOf("TypeError", "Cannot read properties of undefined", <<>>)
     ELSE
     LET query == pathInfoList[1]
     IN IF Len(pathInfoList) < 3
        THEN ErrorOf("Error", "The navigation source could not be extracted in",
                     <<query.propertyName>>)
        ELSE
        LET firstLink == pathInfoList[2]
            secondLink == pathInfoList[3]
            sourceTableName == Coalesce(Lookup(selectionMap, firstLink.propertyName),
                                        toCamelCase(firstLink.table))
        IN IF firstLink.table = Undefined
           THEN ErrorOf("Error", "The navigation target could not be extracted in",
                        <<query.propertyName, firstLink.propertyName>>)
           ELSE IF secondLink.table = Undefined
           THEN ErrorOf("Error", "The navigation target could not be extracted in",
                        <<query.propertyName, firstLink.propertyName,
                          secondLink.propertyName>>)
           ELSE IF sourceTableName \notin PrismaModels
           THEN ErrorOf("Error", "Unrecognized Prisma model",
                        <<sourceTableName, sourceTableName,
                          secondLink.propertyName>>)
           ELSE [threw |-> FALSE,
                 value |-> [to |-> secondLink, root |-> query, from |-> firstLink,
                            source |-> sourceTableName,
                            selectionPath |-> pathInfoList],
                 queries |-> <<>>]

\* The paths a field handler is called with: the field's own key and the key
\* of the root query are field names.
InfoPaths ==
  {path \in PathChains :
     /\ Len(path) >= 1
     /\ path[1].type = "string"
     /\ path[Len(path)].type = "string"}

\* The selection maps a handler passes: none, the one generated for User,
\* and one that names a table the storage client does not have.
ResolverSelectionMaps ==
  {<<>>, _generateMapsForType(registerNavigation(NoNavigations, ManyToMany, 1).navs,
                              "User").selectionMap,
   [k \in {"roles"} |-> "role"]}

GetSelectionPath ==
  /\ paths.pc = "called"
  /\ paths.op = "getSelectionPath"
  /\ LET r == getSelectionPath(_navigations, paths.path, paths.selectionMap)
     IN paths' = [paths EXCEPT !.pc = IF r.threw THEN "threw" ELSE "returned"] @@
                   [result |-> r]
  /\ UNCHANGED <<_navigations, _resolverParams, nextSeq, ret, handler, inv,
                 selections>>

(***************************************************************************)
(* SpecPath: one call of the path extractor or of the path resolution,     *)
(* while the registry holds one many-to-many declaration.                  *)
(***************************************************************************)
\* The calls made: of the extractor with any path, rename map and initial
\* names, and of the path resolution with the path of a handler.
PathCalls ==
  {[pc |-> "called", op |-> "extractGraphQLSelectionPath", path |-> path,
    selectionMap |-> selectionMap, rootPaths |-> rootPaths] :
     path \in PathChains, selectionMap \in PathSelectionMaps,
     rootPaths \in RootPaths}
  \cup
  {[pc |-> "called", op |-> "getSelectionPath", path |-> path,
    selectionMap |-> selectionMap] :
     path \in InfoPaths, selectionMap \in ResolverSelectionMaps}

InitPath ==
  /\ _navigations = registerNavigation(NoNavigations, ManyToMany, 1).navs
  /\ _resolverParams = NoResolverParams
  /\ nextSeq = 2
  /\ ret = [op |-> "none"]
  /\ handler = NoHandler
  /\ inv = Idle
  /\ selections = NoCall
  /\ paths \in PathCalls

NextPath ==
  \/ ExtractGraphQLSelectionPath
  \/ GetSelectionPath

SpecPath == InitPath /\ [][NextPath]_vars

(***************************************************************************)
(* The selection extractor (helpers/extract-grapql-selections.ts).          *)
(*                                                                         *)
(* A selection node is a field (with or without a selection set) or a      *)
(* fragment spread.  A JavaScript object is a function from its keys; its  *)
(* values carry their typeof in "type".                                    *)
(***************************************************************************)
\* The largest number of nodes below the root field of a request.
MaxNodes == 4

\* The fields of a request: scalars and relations.
LeafNames == {"id", "name"}
NestedNames == {"roles", "claims"}

\* A FieldNode; selectionSet tells whether selectionSet.selections is there.
FieldNode(name, selectionSet, entries) ==
  [kind |-> "Field", name |-> name, selectionSet |-> selectionSet,
   selections |-> entries]

\* A FragmentSpreadNode.
FragmentSpread ==
  [kind |-> "FragmentSpread", name |-> "UserFields", selectionSet |-> FALSE,
   selections |-> <<>>]

\* No two entries of a selection set have the same name.
DistinctNames(entries) ==
  \A i, j \in 1..Len(entries) :
    entries[i].name = entries[j].name => i = j

RECURSIVE NodesOfSize(_)
RECURSIVE SelectionsOfSize(_)

\* The selection nodes made of n nodes.
NodesOfSize(n) ==
  IF n = 1
  THEN {FieldNode(name, FALSE, <<>>) : name \in LeafNames} \cup {FragmentSpread}
  ELSE {FieldNode(name, TRUE, entries) :
          name \in NestedNames, entries \in SelectionsOfSize(n - 1)}

\* The selection sets made of n nodes.
SelectionsOfSize(n) ==
  IF n = 0 THEN {<<>>}
  ELSE {entries \in
          UNION {{<<node>> \o rest :
                    node \in NodesOfSize(k), rest \in SelectionsOfSize(n - k)} :
                 k \in 1..n} :
        DistinctNames(entries)}

\* The names of the root fields: a query field and a navigated field.
RootNames == {"allUsers", "roles"}

\* The root fields of the requests: with a selection set, with an empty one
\* and with none.
RootNodes ==
  {FieldNode(name, TRUE, entries) :
     name \in RootNames,
     entries \in UNION {SelectionsOfSize(n) : n \in 0..MaxNodes}}
    \cup {FieldNode(name, FALSE, <<>>) : name \in RootNames}

\* A string value and an object value of a selection object.
StringValue(value) == [type |-> "string", value |-> value]
ObjectValue(entries) == [type |-> "object", entries |-> entries]

\* {}
EmptyObject == ObjectValue(<<>>)

\* { ...previousValue, ...data }
Spread(previousValue, data) == data @@ previousValue

MergeSelection_Overwrite(previousValue, data) ==
  ObjectValue(data)

\* The new collection[ name ] of getGraphQLSelectionsObject's loop.
MergeSelection(previousValue, data) ==
  IF previousValue.type = "object"
  THEN ObjectValue(Spread(previousValue.entries, data))
  ELSE ObjectValue(data)

RECURSIVE getGraphQLSelectionsObject(_)
RECURSIVE CollectSelections(_, _, _)

\* collection[ name ] after the entries from the i-th on.
CollectSelections(entries, i, previousValue) ==
  IF i > Len(entries) THEN previousValue
  ELSE CollectSelections(entries, i + 1,
         MergeSelection(previousValue, getGraphQLSelectionsObject(entries[i])))

\* getGraphQLSelectionsObject(node)
getGraphQLSelectionsObject(node) ==
  IF node.kind = "Field"
  THEN IF node.selectionSet
       THEN IF Len(node.selections) = 0 THEN <<>>
            ELSE node.name :> CollectSelections(node.selections, 1, NoMapper)
       ELSE node.name :> StringValue(node.name)
  ELSE <<>>

\* An object entry of a rename map.
ObjectMapper(entries) == [type |-> "object", entries |-> entries]

\* selectionMap[ key ]; a function has a name.
Index(selectionMap, key) ==
  IF selectionMap.type = "object"
  THEN IF key \in DOMAIN selectionMap.entries THEN selectionMap.entries[key]
       ELSE NoMapper
  ELSE IF selectionMap.type = "function" /\ key = "name"
  THEN StringMapper("name of the function")
  ELSE NoMapper

\* key in selectionMap, for an object or a function.
KeyIn(selectionMap, key) ==
  IF selectionMap.type = "object" THEN key \in DOMAIN selectionMap.entries
  ELSE key \in {"name", "length"}

RECURSIVE modifyGraphQLSelections(_, _, _)

\* The body of the loop of modifyGraphQLSelections for one key: the new
\* source[ key ], the calls made of mapper functions, or the TypeError of
\* the in operator on a string.
ModifySelection(source, selectionMap, parentKeys, key) ==
  LET value == source[key]
      newParentKeys == Append(parentKeys, key)
      mapper == Index(selectionMap, key)
  IN IF value.type = "object"
     THEN LET selMap == IF mapper.type = "undefined" THEN EmptyObject ELSE mapper
              r == modifyGraphQLSelections(value.entries, selMap, newParentKeys)
          IN [threw |-> r.threw, value |-> ObjectValue(r.value), calls |-> r.calls]
     ELSE IF selectionMap.type \notin {"object", "function"}
     THEN [threw |-> TRUE, value |-> value, calls |-> {}]
     ELSE IF ~KeyIn(selectionMap, key)
     THEN [threw |-> FALSE, value |-> value, calls |-> {}]
     ELSE IF mapper.type = "function"
     THEN [threw |-> FALSE, value |-> StringValue(mapper.value),
           calls |-> {[parentKeys |-> newParentKeys, value |-> value.value]}]
     ELSE IF mapper.type = "string"
     THEN [threw |-> FALSE, value |-> StringValue(mapper.value), calls |-> {}]
     ELSE [threw |-> FALSE, value |-> value, calls |-> {}]

\* modifyGraphQLSelections(source, selectionMap, parentKeys)
modifyGraphQLSelections(source, selectionMap, parentKeys) ==
  LET each == [key \in DOMAIN source |->
                 ModifySelection(source, selectionMap, parentKeys, key)]
  IN [threw |-> \E key \in DOMAIN source : each[key].threw,
      value |-> [key \in DOMAIN source |-> each[key].value],
      calls |-> UNION {each[key].calls : key \in DOMAIN source}]

\* true and { select: data }
True == [type |-> "true"]
Select(data) == [type |-> "select", select |-> data]

RECURSIVE intoPrismaSelection(_)

\* intoPrismaSelection(info, {})
intoPrismaSelection(info) ==
  [key \in DOMAIN info |->
     IF info[key].type = "object"
     THEN Select(intoPrismaSelection(info[key].entries))
     ELSE True]

\* const returnValue = values[ name ]; 'select' in returnValue
ReturnValueOf(values, name) ==
  IF name \notin DOMAIN values \/ values[name].type # "select"
  THEN [threw |-> TRUE, error |-> "TypeError"]
  ELSE [threw |-> FALSE, value |-> values[name].select]

ArgumentsAfter_MapAssigned(node, selectionMap, mappedSelections) ==
  [node |-> node, selectionMap |-> ObjectValue(mappedSelections.value)]

\* The arguments as the call leaves them: source[ key ] = ... assigns to the
\* selection object and to the objects nested in it, all of them made by
\* getGraphQLSelectionsObject; nothing is assigned to node or selectionMap.
ArgumentsAfter(node, selectionMap, mappedSelections) ==
  [node |-> node, selectionMap |-> selectionMap]

\* extractGraphQLSelections({ node, selectionMap }): the select object it
\* returns or the TypeError it throws, the calls made of the functions of
\* the rename map, and the arguments as the call leaves them.
extractGraphQLSelections(node, selectionMap) ==
  LET selectionObject == getGraphQLSelectionsObject(node)
      mappedSelections ==
        modifyGraphQLSelections(selectionObject,
          IF selectionMap.type = "undefined" THEN EmptyObject ELSE selectionMap,
          <<>>)
      values == intoPrismaSelection(mappedSelections.value)
      arguments == ArgumentsAfter(node, selectionMap, mappedSelections)
  IN IF mappedSelections.threw
     THEN [threw |-> TRUE, error |-> "TypeError", arguments |-> arguments]
     ELSE ReturnValueOf(values, node.name)
            @@ [calls |-> mappedSelections.calls, arguments |-> arguments]

\* The rename map the generation pass binds to the handlers of User, as
\* getSelectionObject hands it to the extractor: its values are table names
\* and, under sourceClass, the class.
FactorySelectionMap ==
  LET selectionMap ==
        _generateMapsForType(registerNavigation(NoNavigations, ManyToMany, 1).navs,
                             "User").selectionMap
  IN ObjectMapper([key \in DOMAIN selectionMap |->
                     IF key = "sourceClass" THEN FunctionMapper(selectionMap[key])
                     ELSE StringMapper(selectionMap[key])])

\* The rename maps the selection extractor is called with: none; an entry
\* for the relation roles, a string or a function, addressed by the field
\* name alone or from the root field; entries for the scalar id; the map of
\* the resolver factory.
SelectionMaps ==
  {NoMapper, FactorySelectionMap,
   ObjectMapper("roles" :> StringMapper("userRoles")),
   ObjectMapper("roles" :> FunctionMapper("userRoles")),
   ObjectMapper("allUsers" :> ObjectMapper("roles" :> StringMapper("userRoles"))),
   ObjectMapper("allUsers" :> ObjectMapper("roles" :> FunctionMapper("userRoles"))),
   ObjectMapper("allUsers" :> ObjectMapper("id" :> StringMapper("user_id"))),
   ObjectMapper("allUsers" :> ObjectMapper("id" :> FunctionMapper("user_id")))}

\* The caller's node and selectionMap are objects: the state holds them as
\* the last call left them, and given holds them as they were handed over.
ExtractGraphQLSelections ==
  /\ selections.pc = "called"
  /\ LET r == extractGraphQLSelections(selections.node, selections.selectionMap)
     IN selections' = [selections EXCEPT
                         !.pc = IF r.threw THEN "threw" ELSE "returned",
                         !.node = r.arguments.node,
                         !.selectionMap = r.arguments.selectionMap]
                        @@ [given |-> [node |-> selections.node,
                                       selectionMap |-> selections.selectionMap]]
                        @@ r
  /\ UNCHANGED <<_navigations, _resolverParams, nextSeq, ret, handler, inv,
                 paths>>

\* A second call with the same node and the same rename map.
ExtractGraphQLSelectionsAgain ==
  /\ selections.pc = "returned"
  /\ LET r == extractGraphQLSelections(selections.node, selections.selectionMap)
     IN selections' = [selections EXCEPT
                         !.pc = "again",
                         !.node = r.arguments.node,
                         !.selectionMap = r.arguments.selectionMap]
                        @@ [second |-> r]
  /\ UNCHANGED <<_navigations, _resolverParams, nextSeq, ret, handler, inv,
                 paths>>

(***************************************************************************)
(* SpecSelect: a call of the selection extractor, and a second call with   *)
(* the same arguments.                                                     *)
(***************************************************************************)
SelectionCalls ==
  {[pc |-> "called", node |-> node, selectionMap |-> selectionMap] :
     node \in RootNodes, selectionMap \in SelectionMaps}

InitSelect ==
  /\ _navigations = NoNavigations
  /\ _resolverParams = NoResolverParams
  /\ nextSeq = 1
  /\ ret = [op |-> "none"]
  /\ handler = NoHandler
  /\ inv = Idle
  /\ selections \in SelectionCalls
  /\ paths = NoCall

NextSelect ==
  \/ ExtractGraphQLSelections
  \/ ExtractGraphQLSelectionsAgain

SpecSelect == InitSelect /\ [][NextSelect]_vars

(***************************************************************************)
(* Properties of a handler invocation (SpecResolve).                       *)
(***************************************************************************)
\* A non-null object (arrays included), as opposed to what typeof calls 'object'.
IsNonNullObject(v) == v.type \in {"object", "array"}

\* The positions of the calls of one kind in the invocation's log.
CallsOf(kind) == {k \in 1..Len(inv.log) : inv.log[k].call = kind}

\* The link is of array cardinality: one source record, many target records.
ArrayCardinality(navigationMap) == navigationMap.relation = "1:*"

C2_ResolvedOnce ==
  /\ Cardinality(CallsOf("onResolved")) <= 1
  /\ (inv.pc = "done" /\ handler.onResolved = "function") =>
       /\ CallsOf("onResolved") = {Len(inv.log)}
       /\ inv.log[Len(inv.log)].data = inv.data
       /\ handler.onResolving = "function" => 1 \in CallsOf("onResolving")
       /\ IF inv.shouldReturn
          THEN inv.data = inv.preReturn /\ CallsOf("resolve") = {}
          ELSE inv.resolved = "returned" /\ CallsOf("resolve") = {Len(inv.log) - 1}

\* C2 witness: a short-circuited invocation that ended with onResolved called.
C2_Witness ==
  /\ inv.pc = "done"
  /\ inv.shouldReturn
  /\ Len(inv.log) = 2
  /\ inv.log[1].call = "onResolving"
  /\ inv.log[2].call = "onResolved"

\* C3: the handler's final value is onResolved's return value when that is a
\* non-null object, and otherwise the data handed to the post-resolve step.
C3_FinalValue ==
  inv.pc = "done" =>
    inv.result = IF handler.onResolved = "function" /\ IsNonNullObject(inv.postReturn)
                 THEN inv.postReturn
                 ELSE inv.data

\* The items of the parent's list, each taken under the key, in order.
Extracted(list, key) ==
  VArray([k \in 1..Len(list.items) |-> GetField(list.items[k], key)])

\* C4: when resolve returns for a parent that carries the navigated property,
\* no storage query was issued and the data is, for array cardinality, the
\* list of the items' values under the target table name and, for singular
\* cardinality, the parent's property value unchanged.
C4_EagerPath ==
  (inv.resolved = "returned" /\ inv.parent.has) =>
    /\ inv.queries = <<>>
    /\ ~inv.shouldReturn
    /\ inv.data = IF ArrayCardinality(handler.navigationMap)
                  THEN Extracted(inv.parent.value,
                                 handler.navigationMap.targetTableName)
                  ELSE inv.parent.value

\* C4 witness: a one-to-many link resolved from a parent that carries two
\* join rows with different targets.
C4_Witness ==
  /\ inv.resolved = "returned"
  /\ inv.parent.has
  /\ ArrayCardinality(handler.navigationMap)
  /\ inv.data = VArray(<<VObject(1), VObject(2)>>)
  /\ \E k \in 1..Len(inv.parent.value.items) :
       "user" \in DOMAIN inv.parent.value.items[k].fields

\* C5: when the parent does not carry the navigated property and the
\* pre-resolve hook did not short-circuit, resolve issues exactly one storage
\* query (findMany for array cardinality, findFirst otherwise) and the
\* query's result is the data handed to the post-resolve step.
C5_LazyQuery ==
  (inv.resolved # "no" /\ ~inv.parent.has) =>
    /\ inv.resolved = "returned"
    /\ Len(inv.queries) = 1
    /\ inv.queries[1].method = IF ArrayCardinality(handler.navigationMap)
                               THEN "findMany" ELSE "findFirst"
    /\ inv.data = inv.queries[1].result

\* The pre-resolve hook or the resolution failed in this invocation.
FailedBeforeResolved ==
  \/ inv.resolved = "threw"
  \/ /\ inv.pc = "rejected"
     /\ Len(inv.log) > 0
     /\ inv.log[Len(inv.log)].call = "onResolving"

\* C21: when the pre-resolve hook or the resolution (path, selection or
\* storage query) fails, the invocation is rejected with that failure: the
\* post-resolve hook is not invoked, there is no result value, neither hook
\* nor the resolution nor a storage accessor is called a second time, and
\* the rejected invocation takes no further step.
C21_FailurePropagates ==
  /\ [](FailedBeforeResolved =>
          /\ inv.pc = "rejected"
          /\ CallsOf("onResolved") = {}
          /\ inv.result = VUndefined
          /\ Cardinality(CallsOf("onResolving")) <= 1
          /\ Cardinality(CallsOf("resolve")) <= 1
          /\ Len(inv.queries) <= 1)
  /\ [][inv.pc = "rejected" => inv' = inv]_vars

\* C21 witness: both hooks configured, the pre-resolve hook returned
\* nothing, the parent does not carry the property and resolve threw.
C21_Witness ==
  /\ inv.pc = "rejected"
  /\ inv.resolved = "threw"
  /\ handler.onResolving = "function"
  /\ handler.onResolved = "function"
  /\ inv.preReturn = VUndefined
  /\ ~inv.parent.has

\* C22: the fromDatabase flag handed to onResolved is true exactly when the
\* handler issued a storage query in this invocation; it is false when the
\* data came from onResolving or from the parent's loaded property.
C22_FromDatabase ==
  \A k \in CallsOf("onResolved") :
    inv.log[k].fromDatabase = (Len(inv.queries) > 0)

\* C25: onResolving short-circuits only by returning a non-null object: when
\* it returned null, undefined or a value that is no object, the handler went
\* on to resolve, and onResolved receives the data of that resolution with
\* fromDatabase = true.
C25_NoShortCircuit ==
  (/\ handler.onResolving = "function"
   /\ inv.pc \in {"resolve", "onResolved", "done"}
   /\ ~IsNonNullObject(inv.preReturn))
    => /\ ~inv.shouldReturn
       /\ inv.pc \in {"onResolved", "done"} =>
            /\ inv.resolved = "returned"
            /\ inv.fromDatabase
            /\ \A k \in CallsOf("onResolved") :
                 inv.log[k].fromDatabase /\ inv.log[k].data = inv.data

\* The list-ness of the field type the handler declares and of its resolve.
DeclaredAsList(h) == h.isArray
ResolvedAsList(h) == RightOf(h.navigationMap.relation) = "*"

\* C29: for every cardinality tag in 1:1, 1:*, *:1 the field type the
\* handler declares is a list exactly when resolve maps over the items of the
\* parent's property; a *:1 link is singular in both places.
C29_ListConsistency ==
  handler.navigationMap.relation \in {"1:1", "1:*", "*:1"} =>
    /\ DeclaredAsList(handler) = ResolvedAsList(handler)
    /\ handler.navigationMap.relation = "*:1" =>
         ~DeclaredAsList(handler) /\ ~ResolvedAsList(handler)

(***************************************************************************)
(* Properties of the registries and of the generation pass (Spec,          *)
(* SpecGroups).                                                            *)
(***************************************************************************)
\* The links of the registry whose source is type, as a set.
LinksFrom(navs, type) ==
  {navs.list[k] : k \in {j \in 1..Len(navs.list) : navs.list[j].source = type}}

\* The links of a list are in the order of their registration.
InRegistrationOrder(maps) ==
  \A a, b \in 1..Len(maps) : a < b => maps[a].seq < maps[b].seq

\* maps lists exactly the links of the set links, in registration order.
ListsExactly(maps, links) ==
  /\ {maps[k] : k \in 1..Len(maps)} = links
  /\ Len(maps) = Cardinality(links)
  /\ InRegistrationOrder(maps)

\* The keys of a generated mapping, and the types and registrations of a list.
KeysOf(dict) == {dict[k].name : k \in 1..Len(dict)}
TargetsOf(params) == {params[k].target : k \in 1..Len(params)}
RegistrationsOf(params, type) ==
  {params[k] : k \in {j \in 1..Len(params) : params[j].target = type}}

\* The registrations of group groupName, read from the array itself.
GroupOf(regs, groupName) ==
  SelectSeq(regs.list, LAMBDA it: it.moduleName = groupName)

\* The step is a generateDynamicResolvers call.
Generated == ret'.op = "generateDynamicResolvers"

\* C6: the mapping generateDynamicResolvers(g) returns has one key per type
\* registered in g that has a link in the registry, no key for a registered
\* type without links, and under each key one handler per link sourced at
\* that type, in the links' registration order.
C6_GeneratedMapping ==
  [][Generated =>
       LET registered == TargetsOf(GroupOf(_resolverParams, GroupNameOrDefault(ret'.groupName)))
           value == ret'.value
       IN /\ KeysOf(value) =
               {T \in registered : LinksFrom(_navigations, T) # {}}
          /\ \A a, b \in 1..Len(value) : value[a].name = value[b].name => a = b
          /\ \A k \in 1..Len(value) :
               /\ ListsExactly([i \in 1..Len(value[k].resolvers) |->
                                  value[k].resolvers[i].navigationMap],
                               LinksFrom(_navigations, value[k].name))
               /\ \A i \in 1..Len(value[k].resolvers) :
                    value[k].resolvers[i].target = value[k].name]_vars

\* C6 witness: both classes are registered, only User has links (two of
\* them), and the mapping holds the key User alone, with two handlers.
C6_Witness ==
  /\ ret.op = "generateDynamicResolvers"
  /\ ~ret.freeMemory
  /\ TargetsOf(_resolverParams.list) = Types
  /\ KeysOf(ret.value) = {"User"}
  /\ Len(ret.value[1].resolvers) = 2

\* The types of group g of which some registration does not keep the maps.
NotKept(regs, groupName) ==
  {T \in Types : \E p \in RegistrationsOf(GroupOf(regs, groupName), T) :
                   p.keepNavigationMap # "true"}

\* Every link in the registry whose source is registered in g has its own
\* handler under its source's key.
EachLinkHasItsHandler ==
  \A k \in 1..Len(_navigations.list) :
    LET link == _navigations.list[k]
    IN link.source \in TargetsOf(GroupOf(_resolverParams, GroupNameOrDefault(ret'.groupName))) =>
         \E a \in 1..Len(ret'.value) :
           /\ ret'.value[a].name = link.source
           /\ Cardinality({i \in 1..Len(ret'.value[a].resolvers) :
                 ret'.value[a].resolvers[i].navigationMap = link}) = 1

\* C7 as stated: after generateDynamicResolvers(g), for every registration of
\* g whose type had links the type's links are gone when the registration's
\* keepNavigationMap is false or unset and unchanged when it is true; the
\* links of the types not registered in g are unchanged, and every link whose
\* source is registered in g has its own handler.
C7_PerRegistration ==
  [][Generated =>
       LET params == GroupOf(_resolverParams, GroupNameOrDefault(ret'.groupName))
       IN /\ \A k \in 1..Len(params) :
               LinksFrom(_navigations, params[k].target) # {} =>
                 IF params[k].keepNavigationMap = "true"
                 THEN getNavigationMapsOf(_navigations', params[k].target)
                        = getNavigationMapsOf(_navigations, params[k].target)
                 ELSE getNavigationMapsOf(_navigations', params[k].target) = <<>>
          /\ \A T \in Types \ TargetsOf(params) :
               getNavigationMapsOf(_navigations', T)
                 = getNavigationMapsOf(_navigations, T)
          /\ EachLinkHasItsHandler]_vars

\* C7, amended: after generateDynamicResolvers(g) the links of a type are
\* gone when some registration of the type in g has keepNavigationMap false
\* or unset, and the links of every other type (registered in g with
\* keepNavigationMap true only, or not registered in g) are unchanged, the
\* mirrored link of a many-to-many declaration included; every link whose
\* source is registered in g has its own handler.
C7_PerType ==
  [][Generated =>
       LET notKept == NotKept(_resolverParams, GroupNameOrDefault(ret'.groupName))
       IN /\ \A T \in notKept : LinksFrom(_navigations', T) = {}
          /\ \A T \in Types \ notKept :
               /\ LinksFrom(_navigations', T) = LinksFrom(_navigations, T)
               /\ getNavigationMapsOf(_navigations', T)
                    = getNavigationMapsOf(_navigations, T)
          /\ InRegistrationOrder(_navigations'.list)
          /\ EachLinkHasItsHandler]_vars

\* C7 witness: the two links of one many-to-many declaration, User registered
\* with keepNavigationMap true and UserRole without it: each link gave one
\* handler, the link of User is kept and the mirrored link is gone.
C7_Witness ==
  /\ ret.op = "generateDynamicResolvers"
  /\ ~ret.freeMemory
  /\ Len(_resolverParams.list) = 2
  /\ _resolverParams.list[1].target = "User"
  /\ _resolverParams.list[1].keepNavigationMap = "true"
  /\ _resolverParams.list[2].target = "UserRole"
  /\ _resolverParams.list[2].keepNavigationMap = Undefined
  /\ KeysOf(ret.value) = Types
  /\ \A a \in 1..Len(ret.value) : Len(ret.value[a].resolvers) = 1
  /\ \E a, b \in 1..Len(ret.value) :
       /\ ret.value[a].resolvers[1].navigationMap.targetProperty = "users"
       /\ ret.value[b].resolvers[1].navigationMap.seq
            = ret.value[a].resolvers[1].navigationMap.seq + 1
       /\ _navigations.list = <<ret.value[a].resolvers[1].navigationMap>>

\* The step is a generateDynamicResolvers or a provideDynamicResolvers call.
GeneratedOrProvided ==
  ret'.op \in {"generateDynamicResolvers", "provideDynamicResolvers"}

\* C8: after generateDynamicResolvers(g, freeMemory = true)
\* getDynamicResolverParams(g) is empty and the other registrations are
\* unchanged, in the same order; after generateDynamicResolvers(g, freeMemory
\* = false) the registrations are the same, in the same order, as before.
C8_FreeMemory ==
  [][GeneratedOrProvided =>
       LET g == GroupNameOrDefault(ret'.groupName)
       IN IF ret'.freeMemory
          THEN /\ getDynamicResolverParams(_resolverParams', g) = <<>>
               /\ \A k \in 1..Len(_resolverParams'.list) :
                    _resolverParams'.list[k].moduleName # g
               /\ _resolverParams'.list
                    = SelectSeq(_resolverParams.list, LAMBDA it: it.moduleName # g)
               /\ \A h \in ModuleNames \ {g} :
                    GroupOf(_resolverParams', h) = GroupOf(_resolverParams, h)
          ELSE /\ _resolverParams' = _resolverParams
               /\ getDynamicResolverParams(_resolverParams', g)
                    = getDynamicResolverParams(_resolverParams, g)]_vars

\* C8 witness: generateDynamicResolvers('user', true) generated the handlers
\* of the two registrations of the group user and left the one registration
\* of the group _global.
C8_Witness ==
  /\ ret.op = "generateDynamicResolvers"
  /\ ret.groupName = "user"
  /\ ret.freeMemory
  /\ Len(ret.value) = 2
  /\ Len(_resolverParams.list) = 1
  /\ _resolverParams.list[1].moduleName = DefaultGroupName

\* The names of the types for which a call returned handlers.
GeneratedFor(r) ==
  IF r.op = "provideDynamicResolvers"
  THEN {r.value[k].target : k \in 1..Len(r.value)}
  ELSE KeysOf(r.value)

\* C9: a registration without a module name is in the global group:
\* getDynamicResolverParams() returns it, and generateDynamicResolvers() and
\* provideDynamicResolvers(prisma), called without a group name, generate the
\* handlers of its type when the type has links.
C9_RegisteredAsGlobal ==
  [][/\ \A k \in 1..Len(_resolverParams'.list) :
          _resolverParams'.list[k].moduleName = Undefined =>
            \E j \in 1..Len(getDynamicResolverParams(_resolverParams', Undefined)) :
              getDynamicResolverParams(_resolverParams', Undefined)[j]
                = _resolverParams'.list[k]
     /\ (GeneratedOrProvided /\ ret'.groupName = Undefined) =>
          \A k \in 1..Len(_resolverParams.list) :
            (/\ _resolverParams.list[k].moduleName = Undefined
             /\ LinksFrom(_navigations, _resolverParams.list[k].target) # {})
              => _resolverParams.list[k].target \in GeneratedFor(ret')]_vars

\* C10: whatever registerNavigation and removeNavigationMapsOf calls were
\* made, getNavigationMapsOf(T) is exactly the links of the registry whose
\* source is T, none missing and none of another source, in the order of
\* their registration.
C10_MapsOfSource ==
  \A T \in Types :
    ListsExactly(getNavigationMapsOf(_navigations, T), LinksFrom(_navigations, T))

\* C10 witness: two links of User were registered around a link of UserRole,
\* which removeNavigationMapsOf(UserRole) then removed.
C10_Witness ==
  /\ ret.op = "removeNavigationMapsOf"
  /\ ret.type = "UserRole"
  /\ Len(_navigations.list) = 2
  /\ _navigations.list[1].seq = 1
  /\ _navigations.list[2].seq = 3
  /\ Len(getNavigationMapsOf(_navigations, "User")) = 2

\* C24: the reads of the registry are non-mutating and return copies:
\* getNavigationMaps() and getNavigationMapsOf(T) leave the registry as it
\* is, getNavigationMaps() returns every registered link in registration
\* order, and a push to or a pop from a returned list changes what no later
\* getNavigationMaps() or getNavigationMapsOf(T) returns.
C24_ReadsCopy ==
  [][/\ ret'.op \in {"getNavigationMaps", "getNavigationMapsOf"} =>
          _navigations' = _navigations
     /\ ret'.op = "getNavigationMaps" =>
          ListsExactly(ret'.array.items,
                       {_navigations.list[k] : k \in 1..Len(_navigations.list)})
     /\ ret'.op = "mutated" =>
          /\ getNavigationMaps(_navigations') = getNavigationMaps(_navigations)
          /\ \A T \in Types :
               getNavigationMapsOf(_navigations', T)
                 = getNavigationMapsOf(_navigations, T)]_vars

\* C24 witness: getNavigationMaps() returned two links, the caller popped one
\* from the returned list, and the registry still holds both.
C24_Witness ==
  /\ ret.op = "mutated"
  /\ ret.mutation = "pop"
  /\ Len(ret.array.items) = 1
  /\ Len(getNavigationMaps(_navigations)) = 2
  /\ ret.array.items[1] = _navigations.list[1]

\* The keys the links of a list write into a rename map, and what the last
\* link that writes a key leaves under it.
RenameKeysOf(maps) ==
  {maps[i].sourceProperty : i \in 1..Len(maps)}
    \cup {maps[i].targetProperty :
            i \in {k \in 1..Len(maps) : maps[k].targetProperty # Undefined}}

LastWrite(maps, key) ==
  LET writers == {i \in 1..Len(maps) :
                    key \in {maps[i].sourceProperty, maps[i].targetProperty}}
      last == CHOOSE i \in writers : \A k \in writers : k <= i
  IN IF maps[last].targetProperty = key THEN maps[last].targetTableName
     ELSE maps[last].sourceTableName

\* C26: the rename map bound to the handlers of a type T has exactly the
\* entries source property -> source table name and, where a link has one,
\* target property -> target table name, over the links sourced at T (the
\* last link in registration order wins), and no other key.
C26_RenameMap ==
  [][Generated =>
       \A k \in 1..Len(ret'.value) :
         LET maps == getNavigationMapsOf(_navigations, ret'.value[k].name)
         IN \A i \in 1..Len(ret'.value[k].resolvers) :
              LET selectionMap == ret'.value[k].resolvers[i].selectionMap
              IN /\ DOMAIN selectionMap = RenameKeysOf(maps)
                 /\ \A key \in RenameKeysOf(maps) :
                      selectionMap[key] = LastWrite(maps, key)]_vars

\* The links that the handlers of a generated mapping were made from.
LinksUsed(value) ==
  UNION {{value[k].resolvers[i].navigationMap :
            i \in 1..Len(value[k].resolvers)} : k \in 1..Len(value)}

\* The links a registry holds.
LinksIn(navs) == {navs.list[k] : k \in 1..Len(navs.list)}

\* No registration sets keepNavigationMap.
NoneKept(regs) ==
  \A k \in 1..Len(regs.list) : regs.list[k].keepNavigationMap # "true"

\* C28: navigation links are single-use when no registration sets
\* keepNavigationMap: a generation pass makes handlers only from links that
\* are in the registry and removes each of them, a link that left the
\* registry never comes back (a later registration is a new link), so no link
\* is used by two passes; and a generateDynamicResolvers(g) directly after
\* another generateDynamicResolvers(g) returns an empty mapping.
C28_SingleUse ==
  [][/\ LinksIn(_navigations') \ LinksIn(_navigations)
          \subseteq {link \in LinksIn(_navigations') : link.seq > nextSeq}
     /\ (Generated /\ NoneKept(_resolverParams)) =>
          /\ LinksUsed(ret'.value) \subseteq LinksIn(_navigations)
          /\ LinksUsed(ret'.value) \cap LinksIn(_navigations') = {}
          /\ (ret.op = "generateDynamicResolvers"
              /\ GroupNameOrDefault(ret.groupName)
                   = GroupNameOrDefault(ret'.groupName))
               => ret'.value = <<>>]_vars

\* C28 witness: a pass with freeMemory false made a handler from the one link
\* of User; the registration is still there, without keepNavigationMap, and
\* the link is gone while another link stays.
C28_Witness ==
  /\ ret.op = "generateDynamicResolvers"
  /\ ~ret.freeMemory
  /\ Len(ret.value) = 1
  /\ Len(_resolverParams.list) > 0
  /\ NoneKept(_resolverParams)
  /\ LinksUsed(ret.value) # {}
  /\ LinksUsed(ret.value) \cap LinksIn(_navigations) = {}
  /\ Len(_navigations.list) > 0

(***************************************************************************)
(* Properties of registerNavigation and removeNavigationMapsOf (Spec).     *)
(***************************************************************************)
\* The links a step appended to the registry.
Appended ==
  SubSeq(_navigations'.list, Len(_navigations.list) + 1, Len(_navigations'.list))

\* The registry kept every link it had, in place.
KeptAll ==
  /\ Len(_navigations'.list) >= Len(_navigations.list)
  /\ SubSeq(_navigations'.list, 1, Len(_navigations.list)) = _navigations.list

\* Two links are each other's mirror.
Mirrors(forward, reverse) ==
  /\ reverse.source = forward.target
  /\ reverse.target = forward.source
  /\ reverse.sourceProperty = forward.targetProperty
  /\ reverse.targetProperty = forward.sourceProperty
  /\ reverse.sourceTableName = forward.targetTableName
  /\ reverse.targetTableName = forward.sourceTableName

\* C11: registerNavigation with '*:*' from A.items to B.owners appends
\* exactly two links of cardinality '1:*', the forward link A->B via items
\* and the reverse link B->A via owners, each other's mirror; no link of
\* cardinality '*:*' is ever stored.
C11_ManyToManyPair ==
  [][/\ \A k \in 1..Len(_navigations'.list) :
          _navigations'.list[k].relation # "*:*"
     /\ \A params \in NavigationParams :
          (/\ params.relation = "*:*"
           /\ params.to.withProperty # Undefined
           /\ RegisterNavigation(params))
            => /\ KeptAll
               /\ Len(Appended) = 2
               /\ Appended[1].relation = "1:*"
               /\ Appended[2].relation = "1:*"
               /\ Appended[1].source = params.from.source
               /\ Appended[1].target = params.to.target
               /\ Appended[1].sourceProperty = params.from.withProperty
               /\ Appended[2].source = params.to.target
               /\ Appended[2].target = params.from.source
               /\ Appended[2].sourceProperty = params.to.withProperty
               /\ Mirrors(Appended[1], Appended[2])
               /\ Mirrors(Appended[2], Appended[1])]_vars

\* C11 witness: after a one-to-many link, the many-to-many declaration from
\* UserRole.users to User.roles left its two links at the end of the registry.
C11_Witness ==
  /\ ret.op = "registerNavigation"
  /\ ~ret.threw
  /\ Len(_navigations.list) = 3
  /\ _navigations.list[2].source = "UserRole"
  /\ _navigations.list[2].sourceProperty = "users"
  /\ _navigations.list[2].targetProperty = "roles"
  /\ _navigations.list[3].source = "User"
  /\ _navigations.list[3].sourceProperty = "roles"
  /\ _navigations.list[3].seq = 3

\* C12: registerNavigation with '*:*' and no target-side property fails and
\* appends no link: getNavigationMaps() and getNavigationMapsOf(T), for
\* every T, return after the failed call what they returned before it.
C12_MissingTargetProperty ==
  [][\A params \in NavigationParams :
       (/\ params.relation = "*:*"
        /\ params.to.withProperty = Undefined
        /\ RegisterNavigation(params))
         => /\ ret'.threw
            /\ getNavigationMaps(_navigations') = getNavigationMaps(_navigations)
            /\ \A T \in Types :
                 getNavigationMapsOf(_navigations', T)
                   = getNavigationMapsOf(_navigations, T)]_vars

\* C12 witness: the call failed on a registry of two links, which are there.
C12_Witness ==
  /\ ret.op = "registerNavigation"
  /\ ret.threw
  /\ Len(getNavigationMaps(_navigations)) = 2

\* The step is a removeNavigationMapsOf call.
Removed == ret'.op = "removeNavigationMapsOf"

\* C13: removeNavigationMapsOf(T) removes every link whose source is T and
\* no other: afterwards getNavigationMapsOf(T) is empty and the links of
\* every other source are the same, in the same relative order, as before.
C13_RemoveFrame ==
  [][Removed =>
       /\ getNavigationMapsOf(_navigations', ret'.type) = <<>>
       /\ LinksFrom(_navigations', ret'.type) = {}
       /\ \A T \in Types \ {ret'.type} :
            /\ getNavigationMapsOf(_navigations', T)
                 = getNavigationMapsOf(_navigations, T)
            /\ LinksFrom(_navigations', T) = LinksFrom(_navigations, T)
       /\ InRegistrationOrder(_navigations'.list)
       /\ Len(_navigations'.list)
            = Len(_navigations.list)
                - Cardinality(LinksFrom(_navigations, ret'.type))]_vars

\* C13 witness: removeNavigationMapsOf(User) removed the first and the third
\* link and left the link of UserRole registered between them.
C13_Witness ==
  /\ ret.op = "removeNavigationMapsOf"
  /\ ret.type = "User"
  /\ nextSeq = 3
  /\ Len(_navigations.list) = 1
  /\ _navigations.list[1].source = "UserRole"
  /\ _navigations.list[1].seq = 2

\* C14: removeNavigationMapsOf(T) returns true when the registry holds at
\* least one link at the time of the call and false when it holds none
\* (never populated, or already emptied), whatever calls came before.
C14_RemoveReturns ==
  [][Removed => ret'.value = (Len(_navigations.list) > 0)]_vars

\* The reverse table name of a link: reverseTableName, by default the source
\* table name.
ReverseTableNameOf(link) == Coalesce(link.reverseTableName, link.sourceTableName)

\* C15: every link kept in the registry carries the reverse table name it
\* was declared with (from.reverseTableName), and the source table name when
\* none was declared.
C15_ReverseTableName ==
  [][\A params \in NavigationParams :
       (params.relation # "*:*" /\ RegisterNavigation(params))
         => /\ Len(Appended) = 1
            /\ ReverseTableNameOf(Appended[1])
                 = Coalesce(params.from.reverseTableName,
                            Appended[1].sourceTableName)]_vars

(***************************************************************************)
(* Properties of the path extractor and of path resolution (SpecPath).     *)
(***************************************************************************)
\* The names of the string keys of a path, from the root to the leaf.
StringKeysOf(path) ==
  LET n == Len(path)
      rootFirst == [i \in 1..n |-> path[n + 1 - i]]
      strings == SelectSeq(rootFirst, LAMBDA key: key.type = "string")
  IN [i \in 1..Len(strings) |-> strings[i].name]

\* A call of extractGraphQLSelectionPath with selectionMap has returned.
Extracted_Path(selectionMap) ==
  /\ paths.pc = "returned"
  /\ paths.op = "extractGraphQLSelectionPath"
  /\ paths.selectionMap = selectionMap

\* C18: with no rename map extractGraphQLSelectionPath returns the string
\* keys of the chain from the root to the leaf: numeric keys add no segment,
\* the length is the number of string keys, and an absent path yields the
\* initial rootPaths.
C18_PathKeys ==
  Extracted_Path(NoSelectionMap) =>
    /\ paths.rootPaths = <<>> =>
         /\ paths.value = StringKeysOf(paths.path)
         /\ Len(paths.value)
              = Cardinality({i \in 1..Len(paths.path) :
                               paths.path[i].type = "string"})
    /\ paths.path = <<>> => paths.value = paths.rootPaths

\* C18 witness: the chain roles <- 0 <- allUsers gave allUsers, roles.
C18_Witness ==
  /\ Extracted_Path(NoSelectionMap)
  /\ paths.path = <<StringKey("roles"), NumberKey, StringKey("allUsers")>>
  /\ paths.rootPaths = <<>>
  /\ paths.value = <<"allUsers", "roles">>

\* C19: with the rename map { fieldX: 'col_x' } the result is the list
\* returned without a rename map, except that every segment of key fieldX is
\* col_x: same length, same order, the other segments untouched.
C19_RenamedSegment ==
  Extracted_Path(RenameFieldX) =>
    LET plain == StringKeysOf(paths.path) \o paths.rootPaths
    IN /\ Len(paths.value) = Len(plain)
       /\ \A i \in 1..Len(plain) :
            paths.value[i] = IF i <= Len(StringKeysOf(paths.path))
                                /\ plain[i] = "fieldX"
                             THEN "col_x" ELSE plain[i]

\* C19 witness: the chain roles <- fieldX <- allUsers gave allUsers, col_x,
\* roles.
C19_Witness ==
  /\ Extracted_Path(RenameFieldX)
  /\ paths.path = <<StringKey("roles"), StringKey("fieldX"), StringKey("allUsers")>>
  /\ paths.value = <<"allUsers", "col_x", "roles">>

RolesByFunction == [NoSelectionMap EXCEPT !["roles"] = FunctionMapper("userRoles")]

\* parents is the ancestor path of the p-th name of the chain, root first (an
\* ancestor named by its key or by its segment).
AncestorsOf(parents, names, segments, p) ==
  /\ Len(parents) = p - 1
  /\ \A i \in 1..(p - 1) : parents[i] \in {names[i], segments[i]}

\* C27: in path extraction a function entry of the rename map is called, for
\* a string key k of the chain, with the ancestor path of k (root first) and
\* k itself, once per occurrence of k, and its return value is k's segment.
C27_FunctionContract ==
  (Extracted_Path(RolesByFunction) /\ paths.rootPaths = <<>>) =>
    LET names == StringKeysOf(paths.path)
        occurrences == {p \in 1..Len(names) : names[p] = "roles"}
    IN /\ Len(paths.calls) = Cardinality(occurrences)
       /\ Len(paths.value) = Len(names)
       /\ \A p \in occurrences :
            /\ paths.value[p] = "userRoles"
            /\ \E c \in 1..Len(paths.calls) :
                 /\ paths.calls[c].key = "roles"
                 /\ AncestorsOf(paths.calls[c].parents, names, paths.value, p)

(***************************************************************************)
(* Properties of the selection extractor (SpecSelect).                     *)
(***************************************************************************)
\* The Field entries of a selection set.
FieldsOf(selectionSet) ==
  {selectionSet[i] : i \in {j \in 1..Len(selectionSet) :
                              selectionSet[j].kind = "Field"}}

RECURSIVE SelectOf(_)

\* The select object of a selection set: one key per Field entry, true for
\* a field without nested selections, the select object of its selection
\* set otherwise.
SelectOf(selectionSet) ==
  [name \in {node.name : node \in FieldsOf(selectionSet)} |->
     LET node == CHOOSE field \in FieldsOf(selectionSet) : field.name = name
     IN IF node.selectionSet THEN Select(SelectOf(node.selections)) ELSE True]

\* The call of extractGraphQLSelections is over.
Extracted_Selections == selections.pc \in {"returned", "threw"}

EntryFor(selectionMap, root, name) ==
  IF Index(selectionMap, name).type \in {"string", "function"}
  THEN Index(selectionMap, name)
  ELSE Index(Index(selectionMap, root), name)

\* The relation key of the fragment generated for a field: the key under
\* include when the fragment has one, the outer key otherwise.
RelationKeyOf(fragment, name) ==
  IF fragment.type = "include" THEN fragment.relation ELSE name

\* C17: for a field with nested selections the rename-map entry decides the
\* relation key of its fragment and the field name stays the outer key: a
\* string entry is the relation key; a function entry is called with the
\* ancestors of the field and the field name, and its return value is the
\* relation key; without an entry the relation key is the field name.
C17_RelationKey ==
  (/\ Extracted_Selections
   /\ \E node \in FieldsOf(selections.node.selections) :
        node.name = "roles" /\ node.selectionSet)
    => LET entry == EntryFor(selections.selectionMap, selections.node.name, "roles")
       IN /\ selections.pc = "returned"
          /\ "roles" \in DOMAIN selections.value
          /\ RelationKeyOf(selections.value["roles"], "roles")
               = IF entry.type \in {"string", "function"} THEN entry.value
                 ELSE "roles"
          /\ entry.type = "function" =>
               [parentKeys |-> <<selections.node.name>>, value |-> "roles"]
                 \in selections.calls

FlatMap(selectionMap) ==
  \/ selectionMap.type = "undefined"
  \/ /\ selectionMap.type = "object"
     /\ \A key \in DOMAIN selectionMap.entries :
          selectionMap.entries[key].type \in {"string", "function"}

\* C30: extractGraphQLSelections is total: for every field node - with a
\* selection set, with an empty one or with none - and every rename map
\* whose values are strings or functions, the flat map of the resolver
\* factory with the node of the navigated field included, it returns a
\* select tree and does not fail.
C30_Total ==
  (Extracted_Selections /\ FlatMap(selections.given.selectionMap)) =>
    selections.pc = "returned"

====
